---- MODULE Spec2Model ----
(***************************************************************************)
(* Tusday.com: a desktop task board (boards, columns, tasks, cells) with a *)
(* persistent SQLite backend and an in-memory guest backend.               *)
(*                                                                         *)
(* The state is the four SQLite tables plus the users table, the fields of *)
(* the live BoardSidebar / DashboardView / TaskTableView objects, and the  *)
(* screen the navigation shell shows.  Every UI handler is one action.     *)
(* A handler that ends in load_boards / on_refresh / refresh_table is      *)
(* modelled whole: the rebuild of the TaskTableView (and the seeding of    *)
(* default columns its constructor does) is part of the same step.         *)
(***************************************************************************)
EXTENDS Integers, Sequences, FiniteSets, TLC

VARIABLES
    users,                \* table users          (models.py User)
    boards,               \* table boards         (models.py Board)
    board_columns,        \* table board_columns  (models.py BoardColumn)
    tasks,                \* table tasks          (models.py Task)
    task_cells,           \* table task_cells     (models.py TaskCell)
    screen,               \* "login" | "signup" | "dashboard"  (main.py)
    current_user,         \* id of the user of the dashboard, 0 = none/guest
    is_guest,             \* DashboardView.is_guest
    selected_board_id,    \* BoardSidebar.selected_board_id, 0 = None
    current_board,        \* DashboardView.current_board, NoBoard = None
    guest_boards,         \* BoardSidebar.guest_boards (list)
    guest_board_counter,  \* BoardSidebar.guest_board_counter
    guest_columns,        \* TaskTableView.guest_columns (list)
    guest_tasks,          \* TaskTableView.guest_tasks (list)
    guest_cells,          \* TaskTableView.guest_cells
    guest_column_counter, \* TaskTableView.guest_column_counter
    guest_task_counter,   \* TaskTableView.guest_task_counter
    scope,                \* the bounds and inputs of the exploration (never changes)
    viewed,               \* history: ids of the boards whose table view was built
    last                  \* history: the handler that ran last, its inputs and
                          \* the snackbar it showed

dbVars    == <<users, boards, board_columns, tasks, task_cells, scope>>
shellVars == <<screen, current_user, is_guest>>
sideVars  == <<selected_board_id, current_board, guest_boards, guest_board_counter>>
tableVars == <<guest_columns, guest_tasks, guest_cells, guest_column_counter,
               guest_task_counter>>
vars      == <<users, boards, board_columns, tasks, task_cells, screen,
               current_user, is_guest, selected_board_id, current_board,
               guest_boards, guest_board_counter, guest_columns, guest_tasks,
               guest_cells, guest_column_counter, guest_task_counter, scope, viewed,
               last>>

(***************************************************************************)
(* Bounds of the exploration.  A specification explores one part of the    *)
(* program in depth: its initial state fixes `scope`, the largest ids and  *)
(* the inputs the handlers are tried with.  The handlers themselves are    *)
(* the same in every specification.                                        *)
(***************************************************************************)
\* largest board id (persistent rowid, guest_board_counter) explored
MaxBoardId == 1
\* largest board id explored where the order of the board list matters
MaxListedBoards == 2
\* largest column id (persistent rowid, guest_column_counter) explored
MaxColumnId == 4
\* largest task id (persistent rowid, guest_task_counter) explored
MaxTaskId == 2
\* largest cell rowid explored, and largest number of guest cells
MaxCellId == 1
\* largest cell rowid explored where a write has other cells to leave alone
MaxCellsBeside == 2
\* largest number of rows in the users table
MaxUsers == 2
\* a guest session is entered only from a store with at most this many rows
\* in boards/board_columns/tasks/task_cells (the guest branches of every
\* handler read and write no table)
MaxRowsAtGuestEntry == 0

\* the number of default columns a table view seeds
NumDefaultColumns == 3

\* tasks and cells of one board; a column is added only in place of a
\* deleted default column
CellScope ==
    [max_board_id |-> MaxBoardId, max_column_id |-> NumDefaultColumns,
     max_task_id |-> MaxTaskId, max_cell_id |-> MaxCellId, max_users |-> 1,
     usernames |-> {"alice"}, emails |-> {"a@x.com"}, passwords |-> {"secret1"},
     board_names |-> {"", "A"}, column_names |-> {"", "C"},
     column_types |-> {"status"}, task_names |-> {"", " "},
     cell_values |-> {"x", "2024-13-45"}]

\* columns of one board
ColumnScope ==
    [max_board_id |-> MaxBoardId, max_column_id |-> MaxColumnId,
     max_task_id |-> 1, max_cell_id |-> 1, max_users |-> 1,
     usernames |-> {"alice"}, emails |-> {"a@x.com"}, passwords |-> {"secret1"},
     board_names |-> {"", "A"}, column_names |-> {"", "C"},
     column_types |-> {"text"}, task_names |-> {""},
     cell_values |-> {"x"}]

\* the board list: two boards, and the default columns of both
BoardScope ==
    [max_board_id |-> MaxListedBoards,
     max_column_id |-> MaxListedBoards * NumDefaultColumns,
     max_task_id |-> 1, max_cell_id |-> 1, max_users |-> 1,
     usernames |-> {"alice"}, emails |-> {"a@x.com"}, passwords |-> {"secret1"},
     board_names |-> {"A", "B"}, column_names |-> {""},
     column_types |-> {"text"}, task_names |-> {""},
     cell_values |-> {"x"}]

\* the handlers of one board with one task when the storage may fail
FaultScope ==
    [max_board_id |-> MaxBoardId, max_column_id |-> NumDefaultColumns,
     max_task_id |-> 1, max_cell_id |-> 1, max_users |-> 1,
     usernames |-> {"alice"}, emails |-> {"a@x.com"}, passwords |-> {"secret1"},
     board_names |-> {"", "A"}, column_names |-> {"", "C"},
     column_types |-> {"text"}, task_names |-> {"t"},
     cell_values |-> {"x"}]

\* the tasks of one board, their names and their cells
TaskScope ==
    [max_board_id |-> MaxBoardId, max_column_id |-> NumDefaultColumns,
     max_task_id |-> MaxTaskId, max_cell_id |-> MaxCellsBeside, max_users |-> 1,
     usernames |-> {"alice"}, emails |-> {"a@x.com"}, passwords |-> {"secret1"},
     board_names |-> {"A"}, column_names |-> {"C"},
     column_types |-> {"text"}, task_names |-> {"", " ", "n", " n "},
     cell_values |-> {"x", "y"}]

\* the boards of two users
UserScope ==
    [max_board_id |-> MaxListedBoards,
     max_column_id |-> MaxListedBoards * NumDefaultColumns,
     max_task_id |-> 1, max_cell_id |-> 1, max_users |-> MaxUsers,
     usernames |-> {"alice", "bob"}, emails |-> {"a@x.com", "b@y.com"},
     passwords |-> {"secret1", "secret2"},
     board_names |-> {"A"}, column_names |-> {"C"},
     column_types |-> {"text"}, task_names |-> {"n"},
     cell_values |-> {"x"}]

\* users
AuthScope ==
    [max_board_id |-> 0, max_column_id |-> 0, max_task_id |-> 0,
     max_cell_id |-> 0, max_users |-> MaxUsers,
     usernames |-> {"", "alice", "bob"}, emails |-> {"", "a@x.com", "b@y.com"},
     passwords |-> {"", "short", "secret1", "secret2"},
     board_names |-> {""}, column_names |-> {""},
     column_types |-> {"text"}, task_names |-> {""},
     cell_values |-> {"x"}]

(***************************************************************************)
(* Helpers.                                                                *)
(***************************************************************************)
Max(S) == IF S = {} THEN 0 ELSE CHOOSE x \in S : \A y \in S : y <= x

Range(s) == {s[i] : i \in DOMAIN s}

\* SQLite rowid allocation for an INTEGER PRIMARY KEY declared without
\* AUTOINCREMENT: one more than the largest rowid in the table.
NextRowId(table) == Max({r.id : r \in table}) + 1

\* query(...).order_by(position).all(), and sorted(list, key=position):
\* ties keep the scan order, which is rowid order for a table and list
\* order for the guest lists (ids grow with the list index).
RECURSIVE OrderByPosition(_)
OrderByPosition(S) ==
    IF S = {} THEN <<>>
    ELSE LET m == CHOOSE r \in S : \A o \in S :
                     \/ r.position < o.position
                     \/ (r.position = o.position /\ r.id <= o.id)
         IN  <<m>> \o OrderByPosition(S \ {m})

NoBoard == [id |-> 0, name |-> ""]

\* STATUS_OPTIONS keys in insertion order
STATUS_OPTIONS == <<"Done", "Working On It", "Stuck", "">>

\* bcrypt.hash / bcrypt.verify: the hash is a string that is not the
\* password and that verifies exactly the password it was made from
bcrypt_hash(password) == "$2b$" \o password
bcrypt_verify(password, hash) == hash = bcrypt_hash(password)

(***************************************************************************)
(* TaskTableView: reads.                                                   *)
(***************************************************************************)
\* session.query(TaskCell).filter_by(task_id, column_id).first(): the row
\* of lowest rowid among the matches
first_cell(cells, task_id, column_id) ==
    LET m == {c \in cells : c.task_id = task_id /\ c.column_id = column_id}
    IN  CHOOSE c \in m : \A o \in m : c.id <= o.id

has_cell(cells, task_id, column_id) ==
    \E c \in cells : c.task_id = task_id /\ c.column_id = column_id

get_cell_value_db(cells, task_id, column_id) ==
    IF has_cell(cells, task_id, column_id)
    THEN first_cell(cells, task_id, column_id).value
    ELSE ""

\* self.guest_cells.get(task.id, {}).get(column.id, "")
get_cell_value_guest(cells, task_id, column_id) ==
    IF \E c \in cells : c.task_id = task_id /\ c.column_id = column_id
    THEN (CHOOSE c \in cells : c.task_id = task_id /\ c.column_id = column_id).value
    ELSE ""

get_cell_value(task_id, column_id) ==
    IF is_guest THEN get_cell_value_guest(guest_cells, task_id, column_id)
    ELSE get_cell_value_db(task_cells, task_id, column_id)

\* the columns and the tasks refresh_table renders, left to right and top
\* to bottom
shown_columns ==
    IF current_board = NoBoard THEN <<>>
    ELSE IF is_guest THEN OrderByPosition(Range(guest_columns))
    ELSE OrderByPosition({c \in board_columns : c.board_id = current_board.id})

shown_tasks ==
    IF current_board = NoBoard THEN <<>>
    ELSE IF is_guest THEN OrderByPosition(Range(guest_tasks))
    ELSE OrderByPosition({t \in tasks : t.board_id = current_board.id})

(***************************************************************************)
(* TaskTableView: default columns.                                         *)
(***************************************************************************)
GuestColumn(id, name, column_type, position) ==
    [id |-> id, name |-> name, column_type |-> column_type, position |-> position]

\* A row of board_columns, tasks or task_cells carries, besides the columns
\* of its table, the history field `by`: the id of the user in whose
\* session the row was inserted (0 for a guest).  No handler reads it.
BoardColumn(id, board_id, name, column_type, position) ==
    [id |-> id, board_id |-> board_id, name |-> name,
     column_type |-> column_type, position |-> position, by |-> current_user]

\* returns the list and the counter after the three appends
create_default_columns_guest(columns, counter) ==
    [columns |-> columns \o <<GuestColumn(counter + 1, "Status", "status", 0),
                              GuestColumn(counter + 2, "Notes", "text", 1),
                              GuestColumn(counter + 3, "Due Date", "date", 2)>>,
     counter |-> counter + 3]

\* the table board_columns after _ensure_default_columns for board_id
ensure_default_columns(columns, board_id) ==
    IF Cardinality({c \in columns : c.board_id = board_id}) = 0
    THEN LET n == NextRowId(columns)
         IN  columns \cup {BoardColumn(n, board_id, "Status", "status", 0),
                           BoardColumn(n + 1, board_id, "Notes", "text", 1),
                           BoardColumn(n + 2, board_id, "Due Date", "date", 2)}
    ELSE columns

\* guest fields of a TaskTableView after __init__
guest_table_init(guest) ==
    IF guest
    THEN LET d == create_default_columns_guest(<<>>, 0)
         IN  [columns |-> d.columns, column_counter |-> d.counter]
    ELSE [columns |-> <<>>, column_counter |-> 0]

\* the seeding a rebuild would do fits the explored column ids
SeedFits(columns, board, guest) ==
    \/ board = NoBoard
    \/ guest /\ NumDefaultColumns <= scope.max_column_id
    \/ ~guest /\ \E c \in columns : c.board_id = board.id
    \/ ~guest /\ NextRowId(columns) + NumDefaultColumns - 1 <= scope.max_column_id

\* the key of a board in the history `viewed`
BoardKey(guest, id) == <<IF guest THEN "guest" ELSE "db", id>>

\* DashboardView.refresh_board_view: BoardView(page, current_board, is_guest),
\* which builds a TaskTableView when the board is not None.  `board` is the
\* value of current_board, `selected` that of selected_board_id, `columns`
\* the table board_columns and `seen` the history viewed, all as the handler
\* left them.  The view counts as a view of the board in the store when it
\* was built for the board selected in the sidebar (current_board is not
\* cleared when its board is deleted).
refresh_board_view(board, selected, guest, columns, seen) ==
    /\ guest_tasks' = <<>>
    /\ guest_cells' = {}
    /\ guest_task_counter' = 0
    /\ IF board = NoBoard
       THEN /\ guest_columns' = <<>>
            /\ guest_column_counter' = 0
            /\ board_columns' = columns
            /\ viewed' = seen
       ELSE /\ guest_columns' = guest_table_init(guest).columns
            /\ guest_column_counter' = guest_table_init(guest).column_counter
            /\ board_columns' = IF guest THEN columns
                                ELSE ensure_default_columns(columns, board.id)
            /\ viewed' = IF selected = board.id
                         THEN seen \cup {BoardKey(guest, board.id)}
                         ELSE seen

\* what the rebuild built: the board id (0 = no table) and whether it is the
\* first table view of the board selected in the sidebar
Built(op, board, selected, guest, seen) ==
    [op |-> op, built |-> board.id,
     first |-> /\ board # NoBoard
               /\ selected = board.id
               /\ BoardKey(guest, board.id) \notin seen]

(***************************************************************************)
(* TaskTableView: the writes of each handler, as functions of the store.   *)
(***************************************************************************)
TaskCell(id, task_id, column_id, value) ==
    [id |-> id, task_id |-> task_id, column_id |-> column_id, value |-> value,
     by |-> current_user]

GuestCell(task_id, column_id, value) ==
    [task_id |-> task_id, column_id |-> column_id, value |-> value]

TaskRow(id, board_id, name, position) ==
    [id |-> id, board_id |-> board_id, name |-> name, position |-> position,
     by |-> current_user]

\* a variant that inserts when there is no row and leaves a row found as it is
update_cell_db_keeps_row(cells, task_id, column_id, value) ==
    IF has_cell(cells, task_id, column_id)
    THEN cells
    ELSE cells \cup {TaskCell(NextRowId(cells), task_id, column_id, value)}

\* update_cell, persistent branch: update the row found, else insert one
update_cell_db(cells, task_id, column_id, value) ==
    IF has_cell(cells, task_id, column_id)
    THEN LET cell == first_cell(cells, task_id, column_id)
         IN  (cells \ {cell}) \cup {[cell EXCEPT !.value = value]}
    ELSE cells \cup {TaskCell(NextRowId(cells), task_id, column_id, value)}

\* a variant that adds an entry without replacing the one of the pair
update_cell_guest_appends(cells, task_id, column_id, value) ==
    cells \cup {GuestCell(task_id, column_id, value)}

\* update_cell, guest branch: self.guest_cells[task.id][column.id] = value
update_cell_guest(cells, task_id, column_id, value) ==
    {c \in cells : ~(c.task_id = task_id /\ c.column_id = column_id)}
        \cup {GuestCell(task_id, column_id, value)}

\* a variant whose index does not wrap: the last option stays
next_status_no_wrap(current_value) ==
    IF \E i \in DOMAIN STATUS_OPTIONS : STATUS_OPTIONS[i] = current_value
    THEN LET current_index ==
                 (CHOOSE i \in DOMAIN STATUS_OPTIONS :
                      STATUS_OPTIONS[i] = current_value) - 1
             next_index == IF current_index + 1 < Len(STATUS_OPTIONS)
                           THEN current_index + 1 ELSE current_index
         IN  STATUS_OPTIONS[next_index + 1]
    ELSE STATUS_OPTIONS[1]

\* cycle_status: the value written for the value read
next_status(current_value) ==
    IF \E i \in DOMAIN STATUS_OPTIONS : STATUS_OPTIONS[i] = current_value
    THEN LET current_index ==
                 (CHOOSE i \in DOMAIN STATUS_OPTIONS :
                      STATUS_OPTIONS[i] = current_value) - 1
             next_index == (current_index + 1) % Len(STATUS_OPTIONS)
         IN  STATUS_OPTIONS[next_index + 1]
    ELSE STATUS_OPTIONS[1]

\* str.strip() for the space character
RECURSIVE strip(_)
\* a variant that removes nothing
strip_removes_nothing(s) == s

strip(s) ==
    IF Len(s) = 0 THEN s
    ELSE IF SubSeq(s, 1, 1) = " " THEN strip(SubSeq(s, 2, Len(s)))
    ELSE IF SubSeq(s, Len(s), Len(s)) = " " THEN strip(SubSeq(s, 1, Len(s) - 1))
    ELSE s

\* a variant that adds the text typed to the name stored
update_task_name_db_appends(rows, task_id, new_name) ==
    {IF t.id = task_id THEN [t EXCEPT !.name = t.name \o new_name] ELSE t : t \in rows}

\* update_task_name
update_task_name_db(rows, task_id, new_name) ==
    {IF t.id = task_id THEN [t EXCEPT !.name = new_name] ELSE t : t \in rows}

update_task_name_guest(list, task_id, new_name) ==
    [i \in DOMAIN list |->
        IF list[i].id = task_id THEN [list[i] EXCEPT !.name = new_name] ELSE list[i]]

\* add_task, persistent branch: name and position from the row count
add_task_db(rows, board_id) ==
    LET task_count == Cardinality({t \in rows : t.board_id = board_id})
    IN  rows \cup {TaskRow(NextRowId(rows), board_id,
                           "New Task " \o ToString(task_count + 1), task_count)}

\* add_task, guest branch: name from the counter, position from the list
add_task_guest(list, counter, board_id) ==
    Append(list, TaskRow(counter + 1, board_id,
                         "New Task " \o ToString(counter + 1), Len(list)))

\* delete_task, persistent branch: session.delete(db_task) with the
\* cascade of Task.cells
delete_task_db_tasks(rows, task_id) == {t \in rows : t.id # task_id}
\* a variant without the cascade of Task.cells
delete_task_db_cells_no_cascade(cells, task_id) == cells

delete_task_db_cells(cells, task_id) == {c \in cells : c.task_id # task_id}

\* delete_task, guest branch
delete_task_guest_tasks(list, task_id) == SelectSeq(list, LAMBDA t : t.id # task_id)
delete_task_guest_cells(cells, task_id) == {c \in cells : c.task_id # task_id}

\* create_column
create_column_db(columns, board_id, name, col_type) ==
    LET col_count == Cardinality({c \in columns : c.board_id = board_id})
    IN  columns \cup {BoardColumn(NextRowId(columns), board_id, name, col_type,
                                  col_count)}

create_column_guest(list, counter, name, col_type) ==
    Append(list, GuestColumn(counter + 1, name, col_type, Len(list)))

\* delete_column, persistent branch: session.delete(db_column); BoardColumn
\* has no relationship to TaskCell and SQLite enforces no foreign key, so
\* the table task_cells is left as it is
delete_column_db_columns(columns, column_id) == {c \in columns : c.id # column_id}
delete_column_db_cells(cells, column_id) == cells

\* delete_column, guest branch
delete_column_guest_columns(list, column_id) ==
    SelectSeq(list, LAMBDA c : c.id # column_id)
delete_column_guest_cells(cells, column_id) == {c \in cells : c.column_id # column_id}

(***************************************************************************)
(* TaskTableView: the handlers.  Each exists while a table view is shown   *)
(* and is bound to a task and a column of the rendered grid.               *)
(***************************************************************************)
TableShown == screen = "dashboard" /\ current_board # NoBoard

\* a variant of the check of a dialog's name field that lets every name pass
name_is_empty_never(name) == FALSE

\* `if not name:` of the board and column dialogs
name_is_empty(name) == name = ""

TableOp(op) == [op |-> op, built |-> 0, first |-> FALSE]

\* history: the handler that ran last was `op` with the arguments `args`,
\* as when on_submit and on_blur of one field both deliver an edit
Repeats(op, args) ==
    /\ last.op = op
    /\ \A k \in DOMAIN args : k \in DOMAIN last /\ last[k] = args[k]

\* the insert of a cell row fits the explored cell ids
CellFits(task_id, column_id) ==
    IF is_guest
    THEN \/ \E c \in guest_cells : c.task_id = task_id /\ c.column_id = column_id
         \/ Cardinality(guest_cells) < scope.max_cell_id
    ELSE \/ has_cell(task_cells, task_id, column_id)
         \/ NextRowId(task_cells) <= scope.max_cell_id

\* the cells of the active backend
stored_cells == IF is_guest THEN guest_cells ELSE task_cells

\* whether the store holds a cell of the pair
cell_exists(task_id, column_id) ==
    IF is_guest
    THEN \E c \in guest_cells : c.task_id = task_id /\ c.column_id = column_id
    ELSE has_cell(task_cells, task_id, column_id)

\* a variant whose write drops the cells of every other pair
write_cell_drops_others(task_id, column_id, value) ==
    IF is_guest
    THEN /\ guest_cells' = {GuestCell(task_id, column_id, value)}
         /\ UNCHANGED task_cells
    ELSE /\ task_cells' = {TaskCell(1, task_id, column_id, value)}
         /\ UNCHANGED guest_cells

\* the writes of update_cell(task, column, value), shared with cycle_status
write_cell(task_id, column_id, value) ==
    IF is_guest
    THEN /\ guest_cells' = update_cell_guest(guest_cells, task_id, column_id, value)
         /\ UNCHANGED task_cells
    ELSE /\ task_cells' = update_cell_db(task_cells, task_id, column_id, value)
         /\ UNCHANGED guest_cells

\* on_submit / on_blur of a text or date cell
update_cell(task, column, value) ==
    /\ TableShown
    /\ column.column_type # "status"
    /\ CellFits(task.id, column.id)
    /\ write_cell(task.id, column.id, value)
    /\ last' = TableOp("update_cell")
                   @@ [task |-> task.id, column |-> column.id, value |-> value,
                       had |-> cell_exists(task.id, column.id),
                       repeat |-> Repeats("update_cell",
                                          [task |-> task.id, column |-> column.id,
                                           value |-> value])]
    /\ UNCHANGED <<scope, users, boards, board_columns, tasks, shellVars, sideVars,
                   guest_columns, guest_tasks, guest_column_counter,
                   guest_task_counter, viewed>>

\* on_click of a status cell
cycle_status(task, column) ==
    /\ TableShown
    /\ column.column_type = "status"
    /\ CellFits(task.id, column.id)
    /\ LET current_value == get_cell_value(task.id, column.id)
           new_value == next_status(current_value)
       IN  /\ write_cell(task.id, column.id, new_value)
           /\ last' = TableOp("cycle_status")
                          @@ [task |-> task.id, column |-> column.id,
                              current_value |-> current_value,
                              had |-> cell_exists(task.id, column.id)]
    /\ UNCHANGED <<scope, users, boards, board_columns, tasks, shellVars, sideVars,
                   guest_columns, guest_tasks, guest_column_counter,
                   guest_task_counter, viewed>>

\* on_submit / on_blur of the task name field
update_task_name(task, new_name) ==
    /\ TableShown
    /\ IF strip(new_name) = ""
       THEN UNCHANGED <<tasks, guest_tasks>>
       ELSE IF is_guest
       THEN /\ guest_tasks' = update_task_name_guest(guest_tasks, task.id, new_name)
            /\ UNCHANGED tasks
       ELSE /\ tasks' = update_task_name_db(tasks, task.id, new_name)
            /\ UNCHANGED guest_tasks
    /\ last' = TableOp("update_task_name")
                   @@ [task |-> task.id, name |-> new_name,
                       repeat |-> Repeats("update_task_name",
                                          [task |-> task.id, name |-> new_name])]
    /\ UNCHANGED <<scope, users, boards, board_columns, task_cells, shellVars, sideVars,
                   guest_columns, guest_cells, guest_column_counter,
                   guest_task_counter, viewed>>

\* "+ Add Task"
add_task ==
    /\ TableShown
    /\ IF is_guest
       THEN /\ guest_task_counter < scope.max_task_id
            /\ guest_task_counter' = guest_task_counter + 1
            /\ guest_tasks' = add_task_guest(guest_tasks, guest_task_counter,
                                             current_board.id)
            /\ last' = TableOp("add_task")
                           @@ [n |-> Len(guest_tasks), task |-> guest_task_counter + 1]
            /\ UNCHANGED tasks
       ELSE /\ NextRowId(tasks) <= scope.max_task_id
            /\ tasks' = add_task_db(tasks, current_board.id)
            /\ last' = TableOp("add_task")
                           @@ [n |-> Cardinality({t \in tasks :
                                                    t.board_id = current_board.id}),
                               task |-> NextRowId(tasks)]
            /\ UNCHANGED <<guest_tasks, guest_task_counter>>
    /\ UNCHANGED <<scope, users, boards, board_columns, task_cells, shellVars, sideVars,
                   guest_columns, guest_cells, guest_column_counter, viewed>>

\* the delete button of a task row
delete_task(task) ==
    /\ TableShown
    /\ IF is_guest
       THEN /\ guest_tasks' = delete_task_guest_tasks(guest_tasks, task.id)
            /\ guest_cells' = delete_task_guest_cells(guest_cells, task.id)
            /\ UNCHANGED <<tasks, task_cells>>
       ELSE /\ tasks' = delete_task_db_tasks(tasks, task.id)
            /\ task_cells' = delete_task_db_cells(task_cells, task.id)
            /\ UNCHANGED <<guest_tasks, guest_cells>>
    /\ last' = TableOp("delete_task")
                   @@ [task |-> task.id,
                       cells |-> Cardinality({c \in stored_cells :
                                                 c.task_id = task.id})]
    /\ UNCHANGED <<scope, users, boards, board_columns, shellVars, sideVars,
                   guest_columns, guest_column_counter, guest_task_counter, viewed>>

\* "Add" of the add-column dialog
create_column(name, col_type) ==
    /\ TableShown
    /\ IF name_is_empty(name)
       THEN /\ last' = TableOp("create_column")
                           @@ [msg |-> "Column name is required", column |-> 0,
                               name |-> name]
            /\ UNCHANGED <<board_columns, guest_columns, guest_column_counter>>
       ELSE IF is_guest
       THEN /\ guest_column_counter < scope.max_column_id
            /\ guest_column_counter' = guest_column_counter + 1
            /\ guest_columns' = create_column_guest(guest_columns,
                                                    guest_column_counter, name, col_type)
            /\ last' = TableOp("create_column")
                           @@ [msg |-> "added", column |-> guest_column_counter + 1,
                               name |-> name]
            /\ UNCHANGED board_columns
       ELSE /\ NextRowId(board_columns) <= scope.max_column_id
            /\ board_columns' = create_column_db(board_columns, current_board.id,
                                                 name, col_type)
            /\ last' = TableOp("create_column")
                           @@ [msg |-> "added", column |-> NextRowId(board_columns),
                               name |-> name]
            /\ UNCHANGED <<guest_columns, guest_column_counter>>
    /\ UNCHANGED <<scope, users, boards, tasks, task_cells, shellVars, sideVars,
                   guest_tasks, guest_cells, guest_task_counter, viewed>>

\* the delete button of a column header
delete_column(column) ==
    /\ TableShown
    /\ IF is_guest
       THEN /\ guest_columns' = delete_column_guest_columns(guest_columns, column.id)
            /\ guest_cells' = delete_column_guest_cells(guest_cells, column.id)
            /\ UNCHANGED <<board_columns, task_cells>>
       ELSE /\ board_columns' = delete_column_db_columns(board_columns, column.id)
            /\ task_cells' = delete_column_db_cells(task_cells, column.id)
            /\ UNCHANGED <<guest_columns, guest_cells>>
    /\ last' = TableOp("delete_column") @@ [column |-> column.id]
    /\ UNCHANGED <<scope, users, boards, tasks, shellVars, sideVars,
                   guest_tasks, guest_column_counter, guest_task_counter, viewed>>

(***************************************************************************)
(* BoardSidebar: the handlers.                                             *)
(***************************************************************************)
BoardRow(id, name, user_id, updated_at) ==
    [id |-> id, name |-> name, user_id |-> user_id, updated_at |-> updated_at]

GuestBoard(id, name) == [id |-> id, name |-> name]

\* updated_at is a logical time: the row written now gets a time later than
\* every other row's, and the times are kept as the ranks 1..n of the rows
stamp_now(rows, id) ==
    LET rank(b) == Cardinality({o \in rows : o.id # id /\ o.updated_at <= b.updated_at})
    IN  {IF b.id = id THEN [b EXCEPT !.updated_at = Cardinality(rows)]
         ELSE [b EXCEPT !.updated_at = rank(b)] : b \in rows}

\* the boards load_boards lists, as the [id, name] the list items hold
RECURSIVE OrderByUpdatedDesc(_)
OrderByUpdatedDesc(S) ==
    IF S = {} THEN <<>>
    ELSE LET m == CHOOSE r \in S : \A o \in S : o.updated_at <= r.updated_at
         IN  <<GuestBoard(m.id, m.name)>> \o OrderByUpdatedDesc(S \ {m})

load_boards ==
    IF is_guest THEN guest_boards
    ELSE OrderByUpdatedDesc({b \in boards : b.user_id = current_user})

\* create_board, the writes
create_board_db(rows, name, user_id) ==
    stamp_now(rows \cup {BoardRow(NextRowId(rows), name, user_id, 0)}, NextRowId(rows))

create_board_guest(list, counter, name) == Append(list, GuestBoard(counter + 1, name))

\* rename_board, the writes.  db_board.name = new_name followed by commit:
\* the UPDATE, and with it onupdate of updated_at, is emitted only when the
\* name assigned differs from the one loaded
rename_board_db(rows, id, new_name) ==
    IF \E b \in rows : b.id = id /\ b.name # new_name
    THEN stamp_now({IF b.id = id THEN [b EXCEPT !.name = new_name] ELSE b : b \in rows},
                   id)
    ELSE rows

rename_board_guest(list, id, new_name) ==
    [i \in DOMAIN list |->
        IF list[i].id = id THEN [list[i] EXCEPT !.name = new_name] ELSE list[i]]

\* delete_board, persistent branch: session.delete(db_board) with the
\* cascades of Board.columns, Board.tasks and Task.cells
delete_board_db_boards(rows, id) == stamp_now({b \in rows : b.id # id}, 0)
delete_board_db_columns(columns, id) == {c \in columns : c.board_id # id}
delete_board_db_tasks(rows, id) == {t \in rows : t.board_id # id}
delete_board_db_cells(cells, rows, id) ==
    {c \in cells : ~\E t \in rows : t.id = c.task_id /\ t.board_id = id}

delete_board_guest(list, id) == SelectSeq(list, LAMBDA b : b.id # id)

\* "Create" of the new-board dialog
create_board(name) ==
    /\ screen = "dashboard"
    /\ IF name_is_empty(name)
       THEN /\ last' = [op |-> "create_board", built |-> 0, first |-> FALSE,
                        msg |-> "Board name is required", name |-> name]
            /\ UNCHANGED <<boards, board_columns, guest_boards, guest_board_counter,
                           tableVars, viewed>>
       ELSE /\ SeedFits(board_columns, current_board, is_guest)
            /\ IF is_guest
               THEN /\ guest_board_counter < scope.max_board_id
                    /\ guest_board_counter' = guest_board_counter + 1
                    /\ guest_boards' = create_board_guest(guest_boards,
                                                          guest_board_counter, name)
                    /\ UNCHANGED boards
               ELSE /\ NextRowId(boards) <= scope.max_board_id
                    /\ boards' = create_board_db(boards, name, current_user)
                    /\ UNCHANGED <<guest_boards, guest_board_counter>>
            /\ LET id == IF is_guest THEN guest_board_counter + 1 ELSE NextRowId(boards)
                   seen == viewed \ {BoardKey(is_guest, id)}
               IN  /\ refresh_board_view(current_board, selected_board_id, is_guest,
                                         board_columns, seen)
                   /\ last' = Built("create_board", current_board, selected_board_id,
                                    is_guest, seen)
                                  @@ [msg |-> "created", board |-> id, name |-> name]
    /\ UNCHANGED <<scope, users, tasks, task_cells, shellVars, selected_board_id, current_board>>

\* "Rename" of the rename dialog of a listed board
rename_board(board, new_name) ==
    /\ screen = "dashboard"
    /\ IF name_is_empty(new_name)
       THEN /\ last' = [op |-> "rename_board", built |-> 0, first |-> FALSE,
                        msg |-> "Board name is required", board |-> board.id,
                        name |-> new_name]
            /\ UNCHANGED <<boards, board_columns, guest_boards, current_board,
                           tableVars, viewed>>
       ELSE /\ SeedFits(board_columns, current_board, is_guest)
            /\ IF is_guest
               THEN /\ guest_boards' = rename_board_guest(guest_boards, board.id, new_name)
                    \* current_board is the renamed object itself
                    /\ current_board' = IF current_board.id = board.id
                                        THEN [current_board EXCEPT !.name = new_name]
                                        ELSE current_board
                    /\ UNCHANGED boards
               ELSE /\ boards' = rename_board_db(boards, board.id, new_name)
                    /\ UNCHANGED <<guest_boards, current_board>>
            /\ refresh_board_view(current_board', selected_board_id, is_guest,
                                  board_columns, viewed)
            /\ last' = Built("rename_board", current_board', selected_board_id,
                             is_guest, viewed)
                           @@ [msg |-> "renamed", board |-> board.id, name |-> new_name]
    /\ UNCHANGED <<scope, users, tasks, task_cells, shellVars, selected_board_id,
                   guest_board_counter>>

\* "Delete" of the delete dialog of a listed board
delete_board(board) ==
    /\ screen = "dashboard"
    /\ LET columns == IF is_guest THEN board_columns
                      ELSE delete_board_db_columns(board_columns, board.id)
           seen == viewed \ {BoardKey(is_guest, board.id)}
           selected == IF selected_board_id = board.id THEN 0 ELSE selected_board_id
       IN  /\ SeedFits(columns, current_board, is_guest)
           /\ IF is_guest
              THEN /\ guest_boards' = delete_board_guest(guest_boards, board.id)
                   /\ UNCHANGED <<boards, tasks, task_cells>>
              ELSE /\ boards' = delete_board_db_boards(boards, board.id)
                   /\ tasks' = delete_board_db_tasks(tasks, board.id)
                   /\ task_cells' = delete_board_db_cells(task_cells, tasks, board.id)
                   /\ UNCHANGED guest_boards
           /\ selected_board_id' = selected
           /\ refresh_board_view(current_board, selected, is_guest, columns, seen)
           /\ last' = Built("delete_board", current_board, selected, is_guest, seen)
                          @@ [msg |-> "deleted", board |-> board.id]
    /\ UNCHANGED <<scope, users, shellVars, current_board, guest_board_counter>>

\* a click on a listed board
select_board(board) ==
    /\ screen = "dashboard"
    /\ SeedFits(board_columns, board, is_guest)
    /\ selected_board_id' = board.id
    /\ current_board' = board
    /\ refresh_board_view(board, board.id, is_guest, board_columns, viewed)
    /\ last' = Built("select_board", board, board.id, is_guest, viewed)
                   @@ [board |-> board.id]
    /\ UNCHANGED <<scope, users, boards, tasks, task_cells, shellVars, guest_boards,
                   guest_board_counter>>

(***************************************************************************)
(* Login, signup and the navigation shell.                                 *)
(***************************************************************************)
UserRow(id, username, email, password_hash) ==
    [id |-> id, username |-> username, email |-> email,
     password_hash |-> password_hash]

\* a variant that accepts every password
check_password_accepts_all(user, password) == TRUE

\* User.check_password
check_password(user, password) == bcrypt_verify(password, user.password_hash)

\* a variant of the lookup that filters on the username alone
signup_matches_username_only(rows, username, email) ==
    {u \in rows : u.username = username}

\* the rows of (User.username == username) | (User.email == email)
signup_matches(rows, username, email) ==
    {u \in rows : u.username = username \/ u.email = email}

\* User(username, email) with set_password(password), added and committed
signup_insert(rows, username, email, password) ==
    rows \cup {UserRow(NextRowId(rows), username, email, bcrypt_hash(password))}

\* the UNIQUE constraints of users.username and users.email: the commit
\* raises IntegrityError
unique_violation(rows, username, email) ==
    \E u \in rows : u.username = username \/ u.email = email

\* the snackbar for the row the lookup returned
signup_collision_message(existing_user, username) ==
    IF existing_user.username = username THEN "Username already exists"
    ELSE "Email already exists"

\* a variant that hands the guest boards of the old sidebar to the new one
fresh_dashboard_keeps_boards ==
    /\ selected_board_id' = 0
    /\ current_board' = NoBoard
    /\ UNCHANGED <<guest_boards, guest_board_counter>>
    /\ guest_columns' = <<>>
    /\ guest_tasks' = <<>>
    /\ guest_cells' = {}
    /\ guest_column_counter' = 0
    /\ guest_task_counter' = 0
    /\ viewed' = {k \in viewed : k[1] = "db"}

\* a fresh DashboardView: sidebar without selection, BoardView(page, None)
fresh_dashboard ==
    /\ selected_board_id' = 0
    /\ current_board' = NoBoard
    /\ guest_boards' = <<>>
    /\ guest_board_counter' = 0
    /\ guest_columns' = <<>>
    /\ guest_tasks' = <<>>
    /\ guest_cells' = {}
    /\ guest_column_counter' = 0
    /\ guest_task_counter' = 0
    /\ viewed' = {k \in viewed : k[1] = "db"}

ShellOp(op, msg) == [op |-> op, built |-> 0, first |-> FALSE, msg |-> msg]

\* a variant that tells an unknown username from a wrong password
login_error_message_by_cause(rows, username) ==
    IF \E u \in rows : u.username = username
    THEN "Invalid password" ELSE "Unknown username"

\* the snackbar of a login that found no user or whose password did not
\* verify: one text for both
login_error_message(rows, username) == "Invalid username or password"

\* the Login button
handle_login(username, password) ==
    /\ screen = "login"
    /\ IF username = "" \/ password = ""
       THEN /\ last' = ShellOp("handle_login", "Please fill in all fields")
                           @@ [username |-> username, password |-> password]
            /\ UNCHANGED <<shellVars, sideVars, tableVars, viewed>>
       ELSE IF \E u \in users : u.username = username /\ check_password(u, password)
       THEN LET user == CHOOSE u \in users :
                            u.username = username /\ check_password(u, password)
            IN  \* show_dashboard(user)
                /\ screen' = "dashboard"
                /\ current_user' = user.id
                /\ is_guest' = FALSE
                /\ fresh_dashboard
                /\ last' = ShellOp("handle_login", "Welcome back")
                               @@ [user |-> user.id, username |-> username,
                                   password |-> password]
       ELSE /\ last' = ShellOp("handle_login", login_error_message(users, username))
                           @@ [username |-> username, password |-> password]
            /\ UNCHANGED <<shellVars, sideVars, tableVars, viewed>>
    /\ UNCHANGED dbVars

\* the guest button of the login screen: show_guest_dashboard
show_guest_dashboard ==
    /\ screen = "login"
    /\ Cardinality(boards) + Cardinality(board_columns) + Cardinality(tasks)
           + Cardinality(task_cells) <= MaxRowsAtGuestEntry
    /\ screen' = "dashboard"
    /\ current_user' = 0
    /\ is_guest' = TRUE
    /\ fresh_dashboard
    /\ last' = ShellOp("show_guest_dashboard", "")
                   @@ [discarded |-> IF last.op = "logout" THEN last.guest_rows ELSE 0]
    /\ UNCHANGED dbVars

\* the number of boards, tasks and cells a guest session holds
GuestRows ==
    IF is_guest THEN Len(guest_boards) + Len(guest_tasks) + Cardinality(guest_cells)
    ELSE 0

\* a variant that rebuilds the dashboard instead of the login screen
logout_rebuilds_dashboard ==
    /\ screen = "dashboard"
    /\ fresh_dashboard
    /\ last' = ShellOp("logout", "") @@ [guest_rows |-> GuestRows]
    /\ UNCHANGED <<dbVars, shellVars>>

\* the Logout / Exit Guest button: on_logout = show_login
logout ==
    /\ screen = "dashboard"
    /\ screen' = "login"
    /\ current_user' = 0
    /\ is_guest' = FALSE
    /\ fresh_dashboard
    /\ last' = ShellOp("logout", "") @@ [guest_rows |-> GuestRows]
    /\ UNCHANGED dbVars

\* the links between the login and the signup screen
show_signup ==
    /\ screen = "login"
    /\ screen' = "signup"
    /\ last' = ShellOp("show_signup", "")
    /\ UNCHANGED <<dbVars, current_user, is_guest, sideVars, tableVars, viewed>>

show_login ==
    /\ screen = "signup"
    /\ screen' = "login"
    /\ last' = ShellOp("show_login", "")
    /\ UNCHANGED <<dbVars, current_user, is_guest, sideVars, tableVars, viewed>>

SignupInputs(username, email, password, confirm_password) ==
    [username |-> username, email |-> email, password |-> password,
     confirm_password |-> confirm_password]

\* the Sign Up button
handle_signup(username, email, password, confirm_password) ==
    /\ screen = "signup"
    /\ IF username = "" \/ email = "" \/ password = "" \/ confirm_password = ""
       THEN /\ last' = ShellOp("handle_signup", "Please fill in all fields")
                           @@ SignupInputs(username, email, password, confirm_password)
            /\ UNCHANGED <<scope, users, screen>>
       ELSE IF password # confirm_password
       THEN /\ last' = ShellOp("handle_signup", "Passwords do not match")
                           @@ SignupInputs(username, email, password, confirm_password)
            /\ UNCHANGED <<scope, users, screen>>
       ELSE IF Len(password) < 6
       THEN /\ last' = ShellOp("handle_signup", "Password must be at least 6 characters")
                           @@ SignupInputs(username, email, password, confirm_password)
            /\ UNCHANGED <<scope, users, screen>>
       ELSE IF signup_matches(users, username, email) # {}
       THEN \* .first() of a query without ORDER BY: any of the matching rows
            /\ \E existing_user \in signup_matches(users, username, email) :
                   last' = ShellOp("handle_signup",
                                   signup_collision_message(existing_user, username))
                               @@ SignupInputs(username, email, password, confirm_password)
            /\ UNCHANGED <<scope, users, screen>>
       ELSE IF unique_violation(users, username, email)
       THEN \* except IntegrityError: session.rollback()
            /\ last' = ShellOp("handle_signup", "Username or email already exists")
                           @@ SignupInputs(username, email, password, confirm_password)
            /\ UNCHANGED <<users, screen>>
       ELSE /\ Cardinality(users) < scope.max_users
            /\ users' = signup_insert(users, username, email, password)
            /\ screen' = "login"
            /\ last' = ShellOp("handle_signup", "Account created successfully! Please login.")
                           @@ SignupInputs(username, email, password, confirm_password)
    /\ UNCHANGED <<scope, boards, board_columns, tasks, task_cells, current_user,
                   is_guest, sideVars, tableVars, viewed>>

\* a variant whose failure leaves the added user in the store
handle_signup_fails_keeps_user(username, email, password, confirm_password) ==
    /\ screen = "signup"
    /\ username # "" /\ email # "" /\ password # "" /\ confirm_password # ""
    /\ password = confirm_password
    /\ Len(password) >= 6
    /\ signup_matches(users, username, email) = {}
    /\ Cardinality(users) < scope.max_users
    /\ users' = signup_insert(users, username, email, password)
    /\ last' = ShellOp("handle_signup", "Signup error")
                   @@ SignupInputs(username, email, password, confirm_password)
    /\ UNCHANGED <<scope, boards, board_columns, tasks, task_cells, shellVars,
                   sideVars, tableVars, viewed>>

\* the Sign Up button when the lookup or the commit raises an exception
\* other than IntegrityError: session.rollback() and a snackbar
handle_signup_fails(username, email, password, confirm_password) ==
    /\ screen = "signup"
    /\ username # "" /\ email # "" /\ password # "" /\ confirm_password # ""
    /\ password = confirm_password
    /\ Len(password) >= 6
    /\ last' = ShellOp("handle_signup", "Signup error")
                   @@ SignupInputs(username, email, password, confirm_password)
    /\ UNCHANGED <<dbVars, shellVars, sideVars, tableVars, viewed>>

\* the Login button when the query raises: a snackbar, nothing else
handle_login_fails(username, password) ==
    /\ screen = "login"
    /\ username # "" /\ password # ""
    /\ last' = ShellOp("handle_login", "Login error")
                   @@ [username |-> username, password |-> password]
    /\ UNCHANGED <<dbVars, shellVars, sideVars, tableVars, viewed>>

(***************************************************************************)
(* The persistent handlers when a statement or the commit raises.  Every   *)
(* handler of tasks.py catches the exception, calls session.rollback() and *)
(* shows a snackbar; the handlers of boards.py do the same, and their try  *)
(* block also covers the calls made after the commit (load_boards and      *)
(* on_refresh, which builds the table view and queries its rows).          *)
(***************************************************************************)
\* except Exception: session.rollback(); show_snackbar(..., is_error=True)
rolled_back(op, msg) ==
    /\ screen = "dashboard"
    /\ ~is_guest
    /\ last' = TableOp(op) @@ [msg |-> msg]
    /\ UNCHANGED <<dbVars, shellVars, sideVars, tableVars, viewed>>

update_cell_fails(task, column) ==
    TableShown /\ rolled_back("update_cell", "Error updating cell")

update_task_name_fails(task, new_name) ==
    TableShown /\ strip(new_name) # ""
        /\ rolled_back("update_task_name", "Error updating task")

add_task_fails == TableShown /\ rolled_back("add_task", "Error adding task")

delete_task_fails(task) ==
    TableShown /\ rolled_back("delete_task", "Error deleting task")

create_column_fails(name) ==
    TableShown /\ name # "" /\ rolled_back("create_column", "Error adding column")

delete_column_fails(column) ==
    TableShown /\ rolled_back("delete_column", "Error deleting column")

\* the board handlers when the write itself raises
create_board_fails(name) ==
    name # "" /\ rolled_back("create_board", "Error creating board")

rename_board_fails(board, new_name) ==
    new_name # "" /\ rolled_back("rename_board", "Error renaming board")

delete_board_fails(board) == rolled_back("delete_board", "Error deleting board")

\* the board handlers when the commit succeeds and refresh_table, called by
\* the TaskTableView that on_refresh builds for current_board, raises: the
\* exception reaches the handler's except clause, whose rollback finds
\* nothing to undo.  The view on screen is not replaced.
refresh_raises(op, msg, columns) ==
    /\ screen = "dashboard"
    /\ ~is_guest
    /\ current_board # NoBoard
    /\ SeedFits(columns, current_board, FALSE)
    /\ board_columns' = ensure_default_columns(columns, current_board.id)
    /\ last' = TableOp(op) @@ [msg |-> msg]
    /\ UNCHANGED <<scope, users, shellVars, current_board, guest_boards,
                   guest_board_counter, tableVars, viewed>>

create_board_refresh_fails(name) ==
    /\ name # ""
    /\ NextRowId(boards) <= scope.max_board_id
    /\ boards' = create_board_db(boards, name, current_user)
    /\ refresh_raises("create_board", "Error creating board", board_columns)
    /\ UNCHANGED <<tasks, task_cells, selected_board_id>>

rename_board_refresh_fails(board, new_name) ==
    /\ new_name # ""
    /\ boards' = rename_board_db(boards, board.id, new_name)
    /\ refresh_raises("rename_board", "Error renaming board", board_columns)
    /\ UNCHANGED <<tasks, task_cells, selected_board_id>>

delete_board_refresh_fails(board) ==
    /\ boards' = delete_board_db_boards(boards, board.id)
    /\ tasks' = delete_board_db_tasks(tasks, board.id)
    /\ task_cells' = delete_board_db_cells(task_cells, tasks, board.id)
    /\ selected_board_id' = IF selected_board_id = board.id THEN 0
                            ELSE selected_board_id
    /\ refresh_raises("delete_board", "Error deleting board",
                      delete_board_db_columns(board_columns, board.id))

\* a click on a listed board without columns when _ensure_default_columns
\* raises: rollback and snackbar inside the constructor, and the table is
\* shown without columns
select_board_seed_fails(board) ==
    /\ screen = "dashboard"
    /\ ~is_guest
    /\ ~\E c \in board_columns : c.board_id = board.id
    /\ selected_board_id' = board.id
    /\ current_board' = board
    /\ viewed' = viewed \cup {BoardKey(FALSE, board.id)}
    /\ last' = TableOp("select_board") @@ [msg |-> "Error creating columns"]
    /\ UNCHANGED <<dbVars, shellVars, guest_boards, guest_board_counter, tableVars>>

(***************************************************************************)
(* Specifications.                                                         *)
(***************************************************************************)
EmptySession ==
    /\ screen = "login"
    /\ current_user = 0
    /\ is_guest = FALSE
    /\ selected_board_id = 0
    /\ current_board = NoBoard
    /\ guest_boards = <<>>
    /\ guest_board_counter = 0
    /\ guest_columns = <<>>
    /\ guest_tasks = <<>>
    /\ guest_cells = {}
    /\ guest_column_counter = 0
    /\ guest_task_counter = 0
    /\ viewed = {}
    /\ last = ShellOp("main", "")

EmptyBoards ==
    /\ boards = {}
    /\ board_columns = {}
    /\ tasks = {}
    /\ task_cells = {}

\* the program started on a store in which alice has signed up
InitBoards ==
    /\ users = signup_insert({}, "alice", "a@x.com", "secret1")
    /\ EmptyBoards
    /\ EmptySession

Init == InitBoards /\ scope = CellScope

InitColumns == InitBoards /\ scope = ColumnScope

\* the program started on an empty store
InitAuth ==
    /\ users = {}
    /\ EmptyBoards
    /\ EmptySession
    /\ scope = AuthScope

Next ==
    \/ \E username \in scope.usernames, password \in scope.passwords :
           handle_login(username, password)
    \/ show_guest_dashboard
    \/ logout
    \/ \E name \in scope.board_names : create_board(name)
    \/ \E i \in DOMAIN load_boards, new_name \in scope.board_names :
           rename_board(load_boards[i], new_name)
    \/ \E i \in DOMAIN load_boards : delete_board(load_boards[i])
    \/ \E i \in DOMAIN load_boards : select_board(load_boards[i])
    \/ add_task
    \/ \E i \in DOMAIN shown_tasks : delete_task(shown_tasks[i])
    \/ \E i \in DOMAIN shown_tasks, new_name \in scope.task_names :
           update_task_name(shown_tasks[i], new_name)
    \/ \E i \in DOMAIN shown_tasks, j \in DOMAIN shown_columns, value \in scope.cell_values :
           update_cell(shown_tasks[i], shown_columns[j], value)
    \/ \E i \in DOMAIN shown_tasks, j \in DOMAIN shown_columns :
           cycle_status(shown_tasks[i], shown_columns[j])
    \/ \E name \in scope.column_names, col_type \in scope.column_types :
           create_column(name, col_type)
    \/ \E j \in DOMAIN shown_columns : delete_column(shown_columns[j])

NextAuth ==
    \/ show_signup
    \/ show_login
    \/ \E username \in scope.usernames, email \in scope.emails,
          password \in scope.passwords, confirm_password \in scope.passwords :
           handle_signup(username, email, password, confirm_password)
    \/ \E username \in scope.usernames, password \in scope.passwords :
           handle_login(username, password)
    \/ show_guest_dashboard
    \/ logout

Spec == Init /\ [][Next]_vars

SpecColumns == InitColumns /\ [][Next]_vars

SpecAuth == InitAuth /\ [][NextAuth]_vars

InitBoardList == InitBoards /\ scope = BoardScope

\* the sidebar, and of the table the handler that adds a task
NextBoards ==
    \/ \E username \in scope.usernames, password \in scope.passwords :
           handle_login(username, password)
    \/ show_guest_dashboard
    \/ logout
    \/ \E name \in scope.board_names : create_board(name)
    \/ \E i \in DOMAIN load_boards, new_name \in scope.board_names :
           rename_board(load_boards[i], new_name)
    \/ \E i \in DOMAIN load_boards : delete_board(load_boards[i])
    \/ \E i \in DOMAIN load_boards : select_board(load_boards[i])
    \/ add_task

SpecBoards == InitBoardList /\ [][NextBoards]_vars

InitTasks == InitBoards /\ scope = TaskScope

\* one board, and of its table the handlers of tasks and of cells
NextTasks ==
    \/ \E username \in scope.usernames, password \in scope.passwords :
           handle_login(username, password)
    \/ show_guest_dashboard
    \/ logout
    \/ \E name \in scope.board_names : create_board(name)
    \/ \E i \in DOMAIN load_boards : select_board(load_boards[i])
    \/ add_task
    \/ \E i \in DOMAIN shown_tasks : delete_task(shown_tasks[i])
    \/ \E i \in DOMAIN shown_tasks, new_name \in scope.task_names :
           update_task_name(shown_tasks[i], new_name)
    \/ \E i \in DOMAIN shown_tasks, j \in DOMAIN shown_columns, value \in scope.cell_values :
           update_cell(shown_tasks[i], shown_columns[j], value)
    \/ \E i \in DOMAIN shown_tasks, j \in DOMAIN shown_columns :
           cycle_status(shown_tasks[i], shown_columns[j])

SpecTasks == InitTasks /\ [][NextTasks]_vars

\* the program started on a store in which alice and bob have signed up
InitUsers ==
    /\ users = signup_insert(signup_insert({}, "alice", "a@x.com", "secret1"),
                             "bob", "b@y.com", "secret2")
    /\ EmptyBoards
    /\ EmptySession
    /\ scope = UserScope

\* the sessions of the two users, one after the other
NextUsers ==
    \/ \E username \in scope.usernames, password \in scope.passwords :
           handle_login(username, password)
    \/ logout
    \/ \E name \in scope.board_names : create_board(name)
    \/ \E i \in DOMAIN load_boards : delete_board(load_boards[i])
    \/ \E i \in DOMAIN load_boards : select_board(load_boards[i])
    \/ add_task
    \/ \E i \in DOMAIN shown_tasks, j \in DOMAIN shown_columns, value \in scope.cell_values :
           update_cell(shown_tasks[i], shown_columns[j], value)

SpecUsers == InitUsers /\ [][NextUsers]_vars

\* the login and signup screens when the storage may fail
NextAuthFaults ==
    \/ NextAuth
    \/ \E username \in scope.usernames, email \in scope.emails,
          password \in scope.passwords, confirm_password \in scope.passwords :
           handle_signup_fails(username, email, password, confirm_password)
    \/ \E username \in scope.usernames, password \in scope.passwords :
           handle_login_fails(username, password)

SpecAuthFaults == InitAuth /\ [][NextAuthFaults]_vars

InitFaults == InitBoards /\ scope = FaultScope

\* the dashboard when the storage may fail
NextFaults ==
    \/ Next
    \/ \E i \in DOMAIN shown_tasks, j \in DOMAIN shown_columns :
           update_cell_fails(shown_tasks[i], shown_columns[j])
    \/ \E i \in DOMAIN shown_tasks, new_name \in scope.task_names :
           update_task_name_fails(shown_tasks[i], new_name)
    \/ add_task_fails
    \/ \E i \in DOMAIN shown_tasks : delete_task_fails(shown_tasks[i])
    \/ \E name \in scope.column_names : create_column_fails(name)
    \/ \E j \in DOMAIN shown_columns : delete_column_fails(shown_columns[j])
    \/ \E name \in scope.board_names : create_board_fails(name)
    \/ \E i \in DOMAIN load_boards, new_name \in scope.board_names :
           rename_board_fails(load_boards[i], new_name)
    \/ \E i \in DOMAIN load_boards : delete_board_fails(load_boards[i])
    \/ \E name \in scope.board_names : create_board_refresh_fails(name)
    \/ \E i \in DOMAIN load_boards, new_name \in scope.board_names :
           rename_board_refresh_fails(load_boards[i], new_name)
    \/ \E i \in DOMAIN load_boards : delete_board_refresh_fails(load_boards[i])
    \/ \E i \in DOMAIN load_boards : select_board_seed_fails(load_boards[i])

SpecFaults == InitFaults /\ [][NextFaults]_vars

(***************************************************************************)
(* Properties.                                                             *)
(***************************************************************************)
\* C1: update_cell(t, c, v) followed immediately by get_cell_value(t, c)
\* returns exactly v, in both backends and for every string v, a date text
\* that is no calendar date included.
UpdateCellRoundTrip ==
    last.op = "update_cell" =>
        get_cell_value(last.task, last.column) = last.value

\* an existing cell of a date column was overwritten with an invalid date
UpdateCellRoundTripWitness ==
    /\ last.op = "update_cell"
    /\ ~is_guest
    /\ last.had
    /\ last.value = "2024-13-45"
    /\ \E c \in board_columns : c.id = last.column /\ c.column_type = "date"

\* at most one cell of each (task_id, column_id) pair in a store
OneCellPerPair(cells) ==
    \A c1, c2 \in cells :
        c1.task_id = c2.task_id /\ c1.column_id = c2.column_id => c1 = c2

\* a cell write of (task, column): a cell of the pair is replaced in place,
\* and a cell is added only when the pair had none
CellUpsertStep ==
    last'.op \in {"update_cell", "cycle_status"} =>
        LET before == {c \in stored_cells : c.task_id = last'.task
                                            /\ c.column_id = last'.column}
            after  == {c \in stored_cells' : c.task_id = last'.task
                                             /\ c.column_id = last'.column}
        IN  /\ Cardinality(after) = 1
            /\ Cardinality(stored_cells') =
                   Cardinality(stored_cells) + (IF before = {} THEN 1 ELSE 0)

\* C2: in every reachable state each (task_id, column_id) pair has at most
\* one cell, in the table task_cells and in the guest store; writing a cell
\* updates the cell of the pair when there is one and inserts one otherwise.
AtMostOneCellPerPair ==
    /\ [](OneCellPerPair(task_cells) /\ OneCellPerPair(guest_cells))
    /\ [][CellUpsertStep]_vars

\* a guest cell that existed was written again
AtMostOneCellPerPairWitness ==
    /\ last.op = "update_cell"
    /\ is_guest
    /\ last.had
    /\ Cardinality(guest_cells) = 1

\* the successor of a status value as the cycle table gives it
StatusSuccessor(v) ==
    CASE v = "Done" -> "Working On It"
      [] v = "Working On It" -> "Stuck"
      [] v = "Stuck" -> ""
      [] v = "" -> "Done"
      [] OTHER -> "Done"

\* C3: cycle_status is total: the value stored after a click is the
\* successor of the value read, Done -> Working On It -> Stuck -> "" -> Done,
\* and a value outside the cycle (or no cell) goes to Done.
CycleStatusTable ==
    last.op = "cycle_status" =>
        get_cell_value(last.task, last.column) = StatusSuccessor(last.current_value)

\* the click that wraps the cycle: "Stuck" was read and "" is stored
CycleStatusTableWitness ==
    /\ last.op = "cycle_status"
    /\ last.current_value = "Stuck"
    /\ get_cell_value(last.task, last.column) = ""

\* the three default columns, in display order
IsDefaultColumns(cols) ==
    /\ Len(cols) = NumDefaultColumns
    /\ cols[1].name = "Status" /\ cols[1].column_type = "status" /\ cols[1].position = 0
    /\ cols[2].name = "Notes" /\ cols[2].column_type = "text" /\ cols[2].position = 1
    /\ cols[3].name = "Due Date" /\ cols[3].column_type = "date" /\ cols[3].position = 2

\* C4: when the table view of a board is constructed for the first time the
\* board has exactly the columns Status, Notes and Due Date at positions
\* 0, 1 and 2.
FirstViewHasDefaultColumns ==
    last.first => IsDefaultColumns(shown_columns)

\* C5: no column, task or cell of a deleted board exists: every column and
\* every task belongs to a board of the store, every cell to a task of the
\* store.
NoRowsOfDeletedBoards ==
    /\ \A c \in board_columns : \E b \in boards : b.id = c.board_id
    /\ \A t \in tasks : \E b \in boards : b.id = t.board_id
    /\ \A c \in task_cells : \E t \in tasks : t.id = c.task_id

\* C6: after delete_column(c) no cell with column_id = c exists, in either
\* backend.
DeleteColumnRemovesCells ==
    last.op = "delete_column" =>
        \A c \in stored_cells : c.column_id # last.column

\* a deletion of the task last'.task: the task and its cells are gone, every
\* other task and cell is as it was
DeleteTaskStep ==
    last'.op = "delete_task" =>
        IF is_guest
        THEN /\ guest_tasks' = SelectSeq(guest_tasks, LAMBDA t : t.id # last'.task)
             /\ guest_cells' = {c \in guest_cells : c.task_id # last'.task}
        ELSE /\ tasks' = {t \in tasks : t.id # last'.task}
             /\ task_cells' = {c \in task_cells : c.task_id # last'.task}

\* C7: delete_task(t) removes the task t and every cell of t and leaves all
\* other tasks and their cells unchanged.
DeleteTaskFrame == [][DeleteTaskStep]_vars

\* a task that had a cell was deleted from the persistent store and another
\* task of the board remains
DeleteTaskFrameWitness ==
    /\ last.op = "delete_task"
    /\ ~is_guest
    /\ last.cells > 0
    /\ \E t \in tasks : t.board_id = current_board.id /\ t.id # last.task

\* the tasks of the board shown, in either backend
board_tasks == IF is_guest THEN Range(guest_tasks)
               ELSE {t \in tasks : t.board_id = current_board.id}

\* C8: add_task on a board that has n tasks creates a task named
\* "New Task n+1" at position n, in both backends.
AddTaskNameAndPosition ==
    last.op = "add_task" =>
        \E t \in board_tasks :
            /\ t.id = last.task
            /\ t.name = "New Task " \o ToString(last.n + 1)
            /\ t.position = last.n

\* C9: a column or a task just created is rendered after every column or
\* task that existed: it is the last of the display order.
CreatedIsRenderedLast ==
    /\ last.op = "create_column" /\ last.column # 0 =>
           shown_columns[Len(shown_columns)].id = last.column
    /\ last.op = "add_task" =>
           shown_tasks[Len(shown_tasks)].id = last.task

\* no two users with the same username or the same email
UsersUnique ==
    \A u1, u2 \in users :
        (u1.username = u2.username \/ u1.email = u2.email) => u1 = u2

\* the fields of a signup pass the checks made before the lookup
SignupValid(f) ==
    /\ f.username # "" /\ f.email # "" /\ f.password # "" /\ f.confirm_password # ""
    /\ f.password = f.confirm_password
    /\ Len(f.password) >= 6

\* the outcome of a signup with valid fields
SignupStep ==
    last'.op = "handle_signup" /\ SignupValid(last') =>
        LET username_taken == \E u \in users : u.username = last'.username
            email_taken == \E u \in users : u.email = last'.email
        IN  /\ username_taken /\ ~email_taken =>
                /\ last'.msg = "Username already exists"
                /\ users' = users
            /\ email_taken /\ ~username_taken =>
                /\ last'.msg = "Email already exists"
                /\ users' = users
            /\ ~username_taken /\ ~email_taken =>
                /\ Cardinality(users') = Cardinality(users) + 1
                /\ \E u \in users' \ users :
                       /\ u.username = last'.username
                       /\ u.email = last'.email
                       /\ users' = users \cup {u}

\* C10: users are unique by username and by email; a signup whose username
\* is taken and whose email is new is rejected with the username message,
\* one whose email is taken and whose username is new with the email
\* message, and one with both new and valid fields adds exactly one user.
SignupKeepsUsersUnique == []UsersUnique /\ [][SignupStep]_vars

\* a valid signup was rejected because its email belongs to another user
SignupKeepsUsersUniqueWitness ==
    /\ last.op = "handle_signup"
    /\ last.msg = "Email already exists"
    /\ SignupValid(last)
    /\ \E u \in users : u.email = last.email /\ u.username # last.username
    /\ \A u \in users : u.username # last.username

\* a valid signup whose username and whose email both belong to users of
\* the store reports the username collision
BothCollideStep ==
    /\ last'.op = "handle_signup"
    /\ SignupValid(last')
    /\ \E u \in users : u.username = last'.username
    /\ \E u \in users : u.email = last'.email
    => last'.msg = "Username already exists"

SignupFieldError(f) ==
    IF f.username = "" \/ f.email = "" \/ f.password = "" \/ f.confirm_password = ""
    THEN "Please fill in all fields"
    ELSE IF f.password # f.confirm_password THEN "Passwords do not match"
    ELSE "Password must be at least 6 characters"

\* a signup that did not create the account: users and screen stay, and a
\* field error is reported whatever the store holds or does
SignupFailureStep ==
    last'.op = "handle_signup"
        /\ last'.msg # "Account created successfully! Please login." =>
            /\ users' = users
            /\ screen = "signup" /\ screen' = "signup"
            /\ ~SignupValid(last') => last'.msg = SignupFieldError(last')

\* C12: a signup that fails for any reason (empty field, mismatch, short
\* password, duplicate username or email, storage error) leaves the set of
\* users unchanged and the shell on the Signup screen; the field checks are
\* made before the store is read.
SignupFailureChangesNothing == [][SignupFailureStep]_vars

\* a storage error was reported for a signup with valid fields while a
\* user existed, and the shell is on the Signup screen
SignupFailureChangesNothingWitness ==
    /\ last.op = "handle_signup"
    /\ last.msg = "Signup error"
    /\ users # {}
    /\ screen = "signup"

\* a login with the fields of last': the dashboard of the user is entered
\* exactly when a user of that username exists whose stored hash verifies
\* the password; otherwise the shell stays on Login; users never change
LoginStep ==
    last'.op = "handle_login" =>
        LET verified == {u \in users : /\ u.username = last'.username
                                       /\ bcrypt_verify(last'.password, u.password_hash)}
        IN  /\ users' = users
            /\ screen = "login"
            /\ IF verified # {}
               THEN /\ screen' = "dashboard"
                    /\ ~is_guest'
                    /\ \E u \in verified : current_user' = u.id
               ELSE /\ screen' = "login"
                    /\ last'.msg # "Welcome back"

\* the hash stored for a user is not a password typed at signup, and the
\* hash stored by the last signup verifies the password it was given
HashStored ==
    /\ \A u \in users : u.password_hash \notin scope.passwords
    /\ last.op = "handle_signup"
           /\ last.msg = "Account created successfully! Please login." =>
               \E u \in users : /\ u.username = last.username
                                /\ u.password_hash # last.password
                                /\ bcrypt_verify(last.password, u.password_hash)

\* C13: handle_login enters the dashboard if and only if a user with that
\* username exists and the password verifies against the stored hash of
\* that user (the password given at signup); otherwise users are unchanged
\* and the shell stays on Login.  The store holds a hash, never the raw
\* password.
LoginIffVerified == []HashStored /\ [][LoginStep]_vars

\* a known user typed the password of another user and stays on Login
LoginIffVerifiedWitness ==
    /\ last.op = "handle_login"
    /\ last.msg = "Invalid username or password"
    /\ screen = "login"
    /\ \E u \in users : u.username = last.username
    /\ \E u \in users : bcrypt_verify(last.password, u.password_hash)

\* a login with non-empty fields that fails because the username is
\* unknown, or because the password is wrong for a known username: the
\* snackbar and the shell after the step do not depend on which it was
LoginFailureStep ==
    last'.op = "handle_login" /\ last'.username # "" /\ last'.password # "" =>
        LET known == {u \in users : u.username = last'.username}
            unknown_username == known = {}
            wrong_password ==
                /\ known # {}
                /\ \A u \in known : ~bcrypt_verify(last'.password, u.password_hash)
        IN  unknown_username \/ wrong_password =>
                /\ last'.msg = "Invalid username or password"
                /\ screen' = "login"
                /\ current_user' = current_user
                /\ is_guest' = is_guest

\* C14: two failing logins with non-empty fields that differ only in the
\* cause, an unknown username or a wrong password for a known username,
\* give the same error and the same shell state.
LoginFailureIndistinguishable == [][LoginFailureStep]_vars

\* a login with an unknown username failed while the store had a user
\* whose password was the one typed
LoginFailureIndistinguishableWitness ==
    /\ last.op = "handle_login"
    /\ last.username # ""
    /\ \A u \in users : u.username # last.username
    /\ \E u \in users : bcrypt_verify(last.password, u.password_hash)
    /\ last.msg = "Invalid username or password"

\* the shell state: Login, Signup or Dashboard(user, guest)
shell == <<screen, current_user, is_guest>>

\* a step that changes the shell state is one of the five transitions
ShellStep ==
    shell' # shell =>
        \/ /\ screen = "login" /\ screen' = "dashboard" /\ ~is_guest'
           /\ last'.op = "handle_login"
           /\ \E u \in users : /\ u.id = current_user'
                               /\ u.username = last'.username
                               /\ bcrypt_verify(last'.password, u.password_hash)
        \/ /\ screen = "login" /\ screen' = "dashboard" /\ is_guest'
           /\ current_user' = 0
           /\ last'.op = "show_guest_dashboard"
        \/ /\ screen = "login" /\ screen' = "signup"
           /\ current_user' = current_user /\ is_guest' = is_guest
        \/ /\ screen = "signup" /\ screen' = "login"
           /\ current_user' = current_user /\ is_guest' = is_guest
        \/ /\ screen = "dashboard" /\ screen' = "login"
           /\ last'.op = "logout"

\* logout leads to Login
LogoutStep == last'.op = "logout" => screen = "dashboard" /\ screen' = "login"

\* off the dashboard there is no user and no guest flag
ShellStateOk ==
    /\ screen \in {"login", "signup", "dashboard"}
    /\ screen # "dashboard" => current_user = 0 /\ ~is_guest
    /\ screen = "dashboard" => (is_guest <=> current_user = 0)
    /\ screen = "dashboard" /\ ~is_guest => \E u \in users : u.id = current_user
    /\ screen = "dashboard" => ENABLED logout

\* C15: the only transitions of the navigation shell are Login ->
\* Dashboard(user, false) on a successful login, Login -> Dashboard(guest,
\* true) on the guest button, Login <-> Signup, and Dashboard -> Login on
\* logout; Dashboard(user, false) is never entered from Signup or without an
\* authentication of that user, and logout leads from every Dashboard
\* state to Login.
ShellTransitions == []ShellStateOk /\ [][ShellStep /\ LogoutStep]_vars

\* the dashboard of a user, entered by a login with the password of the
\* account
ShellTransitionsWitness ==
    /\ last.op = "handle_login"
    /\ screen = "dashboard"
    /\ ~is_guest
    /\ \E u \in users : u.id = current_user /\ u.username = last.username

\* C16: after a guest session, a logout and a new guest entry, the new
\* guest dashboard has no board, no selected board and no task, column or
\* cell: nothing of the earlier guest session is observable.
FreshGuestDashboard ==
    last.op = "show_guest_dashboard" =>
        /\ is_guest /\ screen = "dashboard"
        /\ load_boards = <<>>
        /\ guest_boards = <<>> /\ guest_board_counter = 0
        /\ selected_board_id = 0 /\ current_board = NoBoard
        /\ shown_columns = <<>> /\ shown_tasks = <<>>
        /\ guest_columns = <<>> /\ guest_tasks = <<>> /\ guest_cells = {}
        /\ guest_column_counter = 0 /\ guest_task_counter = 0

\* a guest entry right after the logout of a guest session that held a
\* board, a task and a cell
FreshGuestDashboardWitness ==
    /\ last.op = "show_guest_dashboard"
    /\ last.discarded >= 3

\* a guest step of the sidebar that leaves the board B on display (B is
\* selected again, or another board is created, renamed or deleted) shows
\* the columns, tasks and cell values B had
GuestBoardKeptStep ==
    /\ is_guest /\ is_guest'
    /\ current_board # NoBoard
    /\ current_board'.id = current_board.id
    /\ \E i \in DOMAIN guest_boards' : guest_boards'[i].id = current_board.id
    /\ last'.op \in {"select_board", "create_board", "rename_board", "delete_board"}
    /\ last'.op \in {"rename_board", "delete_board"} /\ last'.msg # "Board name is required"
           => last'.board # current_board.id
    => /\ guest_columns' = guest_columns
       /\ guest_tasks' = guest_tasks
       /\ guest_cells' = guest_cells

\* C17: within one guest session the tasks, added columns and cell values
\* of a guest board B are kept: selecting B again, selecting another board,
\* or creating, renaming or deleting another board, and then displaying B,
\* shows the same tasks, columns and cell values.
GuestBoardContentKept == [][GuestBoardKeptStep]_vars

\* what a table shows of its tasks: name and position, in display order
TasksObserved(S) ==
    LET shown == OrderByPosition(S)
    IN  [i \in DOMAIN shown |-> <<shown[i].name, shown[i].position>>]

\* add_task of the guest backend shows what add_task of the persistent
\* backend shows when it is applied to a store that shows the same tasks
BackendsAgreeStep ==
    is_guest /\ last'.op = "add_task" =>
        LET board_id == current_board.id
            rows == {TaskRow(t.id, board_id, t.name, t.position) :
                         t \in Range(guest_tasks)}
        IN  TasksObserved(Range(guest_tasks'))
                = TasksObserved(add_task_db(rows, board_id))

\* C18: the persistent and the guest backend have the same contract: the
\* same sequence of operations applied to both from an empty store gives
\* the same observable results at every step (boards, columns, tasks, cell
\* values), up to the renaming of ids.
BackendsAgree == [][BackendsAgreeStep]_vars

\* the ids of a list of boards, and a list of ids without one of them
BoardIds(list) == [i \in DOMAIN list |-> list[i].id]
WithoutId(ids, id) == SelectSeq(ids, LAMBDA x : x # id)

\* how a step on the dashboard changes the list load_boards shows.  For a
\* user a created or renamed board moves to the front and the other boards
\* keep their order; for a guest a created board goes to the end and a
\* rename moves nothing; a deleted board leaves the list; no other handler
\* changes the list.
BoardListStep ==
    screen = "dashboard" /\ screen' = "dashboard" =>
        LET before == BoardIds(load_boards)
            after == BoardIds(load_boards')
        IN  IF last'.op = "create_board" /\ last'.msg = "created"
            THEN after = IF is_guest THEN Append(before, last'.board)
                         ELSE <<last'.board>> \o before
            ELSE IF last'.op = "rename_board" /\ last'.msg = "renamed"
            THEN after = IF is_guest THEN before
                         ELSE <<last'.board>> \o WithoutId(before, last'.board)
            ELSE IF last'.op = "delete_board"
            THEN after = WithoutId(before, last'.board)
            ELSE after = before

\* C19: load_boards lists the boards of the logged-in user in descending
\* order of last update, where creating and renaming a board are the
\* updates and editing its tasks, columns and cells is not; for a guest it
\* lists the boards in creation order, unchanged by renames.
BoardListOrder == [][BoardListStep]_vars

\* the snackbars with which a persistent mutation reports an error
MutationErrors ==
    {"Error creating board", "Error renaming board", "Error deleting board",
     "Error adding task", "Error updating task", "Error deleting task",
     "Error adding column", "Error deleting column", "Error updating cell",
     "Error creating columns", "Board name is required", "Column name is required"}

\* a persistent handler that reported an error left the four tables as
\* they were
ErrorLeavesStoreStep ==
    ~is_guest /\ "msg" \in DOMAIN last' /\ last'.msg \in MutationErrors =>
        /\ boards' = boards
        /\ board_columns' = board_columns
        /\ tasks' = tasks
        /\ task_cells' = task_cells

\* C20: whenever a persistent mutation (create, rename or delete of a
\* board, add, rename or delete of a task, add or delete of a column,
\* update_cell, the seeding of the default columns) reports an error, the
\* repository is as it was before the operation: no partial or complete
\* write of the operation remains.
ErrorLeavesStoreUnchanged == [][ErrorLeavesStoreStep]_vars

\* the boards, columns, tasks, cells and id counters of both backends
repository ==
    <<boards, board_columns, tasks, task_cells, guest_boards, guest_board_counter,
      guest_columns, guest_tasks, guest_cells, guest_column_counter,
      guest_task_counter>>

\* a board or column dialog confirmed with an empty name is rejected with
\* the snackbar of its field and writes nothing
EmptyNameStep ==
    last'.op \in {"create_board", "rename_board", "create_column"}
        /\ last'.name = "" =>
            /\ last'.msg = IF last'.op = "create_column"
                           THEN "Column name is required"
                           ELSE "Board name is required"
            /\ repository' = repository
            /\ selected_board_id' = selected_board_id
            /\ current_board' = current_board

\* C21: in both backends create_board with an empty name, rename_board with
\* an empty name and create_column with an empty name are rejected and leave
\* boards, columns, tasks, cells and the id counters unchanged.
EmptyNameRejected == [][EmptyNameStep]_vars

\* a guest whose board holds a task confirmed the rename dialog with an
\* empty name
EmptyNameRejectedWitness ==
    /\ last.op = "rename_board"
    /\ last.name = ""
    /\ is_guest
    /\ guest_tasks # <<>>
    /\ \E i \in DOMAIN guest_boards : guest_boards[i].id = last.board

\* a text that is empty or made of spaces only
OnlyWhitespace(s) == \A i \in 1..Len(s) : SubSeq(s, i, i) = " "

\* the task of a list or a table with its name replaced
Renamed(t, id, name) == IF t.id = id THEN [t EXCEPT !.name = name] ELSE t

\* an edit of the name of the task last'.task: a blank name writes nothing;
\* any other name becomes the name of that task as typed, and every other
\* task, every column and every cell stays
UpdateTaskNameStep ==
    last'.op = "update_task_name" =>
        IF OnlyWhitespace(last'.name)
        THEN repository' = repository
        ELSE /\ tasks' = IF is_guest THEN tasks
                         ELSE {Renamed(t, last'.task, last'.name) : t \in tasks}
             /\ guest_tasks' =
                    IF is_guest
                    THEN [i \in DOMAIN guest_tasks |->
                              Renamed(guest_tasks[i], last'.task, last'.name)]
                    ELSE guest_tasks
             /\ \E t \in board_tasks' : t.id = last'.task /\ t.name = last'.name
             /\ UNCHANGED <<boards, board_columns, task_cells, guest_boards,
                            guest_board_counter, guest_columns, guest_cells,
                            guest_column_counter, guest_task_counter>>

\* C22: update_task_name(t, newName) with newName empty or made of
\* whitespace only changes nothing in the repository (the task keeps its
\* name); with any other newName the stored name of t becomes newName and
\* no other task, column or cell changes.
UpdateTaskNameFrame == [][UpdateTaskNameStep]_vars

\* a blank name was submitted for a task that had been renamed to "n",
\* while the board held another task and a cell
UpdateTaskNameFrameWitness ==
    /\ last.op = "update_task_name"
    /\ last.name = " "
    /\ ~is_guest
    /\ \E t \in tasks : t.id = last.task /\ t.name = "n"
    /\ \E t \in tasks : t.id # last.task
    /\ task_cells # {}

\* the columns and tasks a step inserted.  delete_board removes the columns
\* of its board with the cascade, so a column of that board found after the
\* step was inserted by the rebuild of the table view that ends the handler.
inserted_columns ==
    {c \in board_columns' :
        \/ c \notin board_columns
        \/ last'.op = "delete_board" /\ c.board_id = last'.board}

inserted_tasks == {t \in tasks' : ~\E o \in tasks : o.id = t.id}

inserted_guest_tasks ==
    {t \in Range(guest_tasks') : ~\E o \in Range(guest_tasks) : o.id = t.id}

\* every row a step inserted belongs to a board that exists after the step
CreatedForExistingBoardStep ==
    /\ \A c \in inserted_columns : \E b \in boards' : b.id = c.board_id
    /\ \A t \in inserted_tasks : \E b \in boards' : b.id = t.board_id
    /\ \A t \in inserted_guest_tasks :
           \E i \in DOMAIN guest_boards' : guest_boards'[i].id = t.board_id

\* C23: every Column and every Task is created for a Board that exists at
\* that moment: default-column seeding, create_column and add_task never
\* insert a row whose board_id is not the id of a board of the repository,
\* the rebuild of the table view right after delete_board of the displayed
\* board included.
CreatedForExistingBoard == [][CreatedForExistingBoardStep]_vars

\* C24: in every reachable state every Cell references a Task and a Column
\* that both exist and belong to the same Board, in the table task_cells and
\* in the guest store; no sequence of UI events creates or leaves a Cell
\* that breaks this.
CellsReferenceTaskAndColumn ==
    /\ \A c \in task_cells :
           \E t \in tasks, col \in board_columns :
               /\ t.id = c.task_id
               /\ col.id = c.column_id
               /\ t.board_id = col.board_id
    /\ \A c \in guest_cells :
           /\ \E i \in DOMAIN guest_tasks : guest_tasks[i].id = c.task_id
           /\ \E j \in DOMAIN guest_columns : guest_columns[j].id = c.column_id

\* the positions of a set of columns are 0..n-1, each once
DensePositions(cols) ==
    /\ {c.position : c \in cols} = 0..(Cardinality(cols) - 1)
    /\ \A c1, c2 \in cols : c1.position = c2.position => c1 = c2

\* C25: in every reachable state the positions of the columns of a board
\* are 0-based and dense: a board with n columns has exactly the positions
\* 0..n-1, each once, after any sequence of seeding, create_column and
\* delete_column.
ColumnPositionsDense ==
    /\ \A b \in boards :
           DensePositions({c \in board_columns : c.board_id = b.id})
    /\ DensePositions(Range(guest_columns))

\* the cells the table on screen shows: those of a shown task and a shown
\* column
shown_cells ==
    {c \in task_cells :
        /\ \E i \in DOMAIN shown_tasks : shown_tasks[i].id = c.task_id
        /\ \E j \in DOMAIN shown_columns : shown_columns[j].id = c.column_id}

\* C26: persistent data is scoped by owning user: across any interleaving
\* of sessions of users u and v, the boards listed for u are exactly the
\* boards u created and has not deleted, and every board, column, task and
\* cell that u can see or change was created in a session of u.
UserScoped ==
    screen = "dashboard" /\ ~is_guest =>
        /\ {load_boards[i].id : i \in DOMAIN load_boards}
               = {b.id : b \in {o \in boards : o.user_id = current_user}}
        /\ \A j \in DOMAIN shown_columns : shown_columns[j].by = current_user
        /\ \A i \in DOMAIN shown_tasks : shown_tasks[i].by = current_user
        /\ \A c \in shown_cells : c.by = current_user

\* C27: in every reachable Dashboard state the board shown in the board
\* view is either none or a board that exists in the repository, with its
\* current name, and it agrees with the selection of the sidebar: after
\* delete_board of the displayed board the view shows no board, and after
\* rename_board of the displayed board the view shows the new name.
DisplayedBoardCurrent ==
    screen = "dashboard" =>
        /\ \/ current_board = NoBoard
           \/ \E i \in DOMAIN load_boards :
                  /\ load_boards[i].id = current_board.id
                  /\ load_boards[i].name = current_board.name
        /\ current_board.id = selected_board_id

\* the columns of a board in the table board_columns
columns_of(columns, board_id) == {c \in columns : c.board_id = board_id}

\* a step that is not an accepted create_column adds no column to a board
\* whose table view has been built before (the board was seeded) and that
\* is still in the repository
SeededOnceStep ==
    ~(last'.op = "create_column" /\ last'.msg = "added") =>
        /\ \A b \in boards :
               /\ BoardKey(FALSE, b.id) \in viewed
               /\ \E o \in boards' : o.id = b.id
               => columns_of(board_columns', b.id) \subseteq columns_of(board_columns, b.id)
        /\ /\ is_guest /\ is_guest'
           /\ current_board # NoBoard
           /\ current_board'.id = current_board.id
           /\ BoardKey(TRUE, current_board.id) \in viewed
           /\ \E i \in DOMAIN guest_boards' : guest_boards'[i].id = current_board.id
           => Range(guest_columns') \subseteq Range(guest_columns)

\* C28: default columns are seeded once per board: after a board has been
\* seeded, a column removed with delete_column never reappears and no column
\* is added except by create_column, also when the user deletes all columns
\* of the board and the table view is constructed again (the board is
\* selected again, or another board is created, renamed or deleted).
SeededOncePerBoard == [][SeededOnceStep]_vars

\* the cells of a store other than the one of the pair (task, column)
other_cells(cells, task_id, column_id) ==
    {c \in cells : ~(c.task_id = task_id /\ c.column_id = column_id)}

\* a write of the cell (last'.task, last'.column) by update_cell or
\* cycle_status: the cells of every other pair, the tasks, the columns, the
\* boards, the users and the counters are as they were
CellWriteFrameStep ==
    last'.op \in {"update_cell", "cycle_status"} =>
        /\ other_cells(task_cells', last'.task, last'.column)
               = other_cells(task_cells, last'.task, last'.column)
        /\ other_cells(guest_cells', last'.task, last'.column)
               = other_cells(guest_cells, last'.task, last'.column)
        /\ is_guest => task_cells' = task_cells
        /\ ~is_guest => guest_cells' = guest_cells
        /\ UNCHANGED <<users, boards, board_columns, tasks, guest_boards,
                       guest_board_counter, guest_columns, guest_tasks,
                       guest_column_counter, guest_task_counter>>

\* C29: update_cell(t, c, v) and cycle_status(t, c) change only the value
\* of the cell (t, c): every other cell, the sets, names, types and
\* positions of tasks and columns, the boards and the users are unchanged,
\* in both backends.
CellWriteFrame == [][CellWriteFrameStep]_vars

\* a status cell was cycled in a table that holds a cell of another pair
CellWriteFrameWitness ==
    /\ last.op = "cycle_status"
    /\ other_cells(stored_cells, last.task, last.column) # {}
    /\ Cardinality(board_tasks) = 2

\* the second delivery of an edit: the handler that ran last runs again
\* with the same arguments, and the repository stays as the first delivery
\* left it, with one cell of the pair
DoubleDeliveryStep ==
    last'.op \in {"update_cell", "update_task_name"} /\ last'.repeat =>
        /\ repository' = repository
        /\ last'.op = "update_cell" =>
               /\ last'.value =
                      IF is_guest
                      THEN get_cell_value_guest(guest_cells', last'.task, last'.column)
                      ELSE get_cell_value_db(task_cells', last'.task, last'.column)
               /\ Cardinality({c \in stored_cells' :
                                  /\ c.task_id = last'.task
                                  /\ c.column_id = last'.column}) = 1

\* C30: text, date and task-name edits are idempotent under the double
\* delivery of submit and blur: update_cell(t, c, v) applied twice, and
\* update_task_name(t, n) applied twice, leave the repository in the state
\* (same cells, one Cell per pair, same names) one application leaves.
EditsIdempotent == [][DoubleDeliveryStep]_vars

\* the name n was delivered twice for a task of the persistent store
EditsIdempotentWitness ==
    /\ last.op = "update_task_name"
    /\ last.repeat
    /\ last.name = "n"
    /\ ~is_guest
    /\ \E t \in tasks : t.id = last.task /\ t.name = "n"

====
